---- MODULE Spec2Model ----
(***************************************************************************)
(* thermalization_ratio of plasmapy.formulary.collisions.helio             *)
(* (collisional_analysis.py): the argument validation, the dispatch over   *)
(* array-like inputs, and the nested integrator df_eq with its Coulomb     *)
(* logarithm lambda_ba.                                                    *)
(*                                                                         *)
(* Numbers.  The code computes in binary floating point (numpy float64     *)
(* behind astropy Quantity).  The model keeps that arithmetic but at a     *)
(* reduced significand width: a finite number is s * m * 2^e with a        *)
(* significand m of exactly MantBits bits (or m = 0), every operation      *)
(* rounds its exact result to nearest, ties to even, and division by zero  *)
(* and logarithms of non-positive numbers give inf and nan as numpy does   *)
(* (a RuntimeWarning, not an exception).  The exponent is unbounded (no    *)
(* overflow or underflow) and the sign of zero is not kept.  Units are not *)
(* modelled: validate_quantities has converted the seven quantities to     *)
(* au, cm-3, km/s and K before the body runs.                              *)
(***************************************************************************)
EXTENDS Integers, Sequences, FiniteSets, TLC

\* width of the significand, in bits (float64 has 53)
MantBits == 11

\* fraction bits of the fixed-point logarithm
LogBits == MantBits + 2

\* the largest step count, the longest array and the largest |exponent| tried
MaxStep == 3

MaxBatch == 2

VARIABLES
    args,     \* the arguments of the call, after validate_quantities
    pc,       \* position in thermalization_ratio
    df,       \* the frame of the running (or last) df_eq invocation
    res,      \* the list res of the batch branch
    bi,       \* the index i of the batch loop
    caller,   \* the call site df_eq returns to: "single" or "batch"
    result,   \* what the call returned or raised
    entered   \* number of df_eq invocations so far

vars == <<args, pc, df, res, bi, caller, result, entered>>

----------------------------------------------------------------------------
(* floating point values *)

NaN == [k |-> "nan", s |-> 1, m |-> 0, e |-> 0]

Inf(sg) == [k |-> "inf", s |-> sg, m |-> 0, e |-> 0]

Zero == [k |-> "fin", s |-> 1, m |-> 0, e |-> 0]

IsNaN(x) == x.k = "nan"

IsInf(x) == x.k = "inf"

IsFin(x) == x.k = "fin"

IsZero(x) == x.k = "fin" /\ x.m = 0

Abs(n) == IF n < 0 THEN -n ELSE n

Sgn(n) == IF n < 0 THEN -1 ELSE 1

RECURSIVE BitLen(_)
\* number of bits of a positive integer
BitLen(n) == IF n <= 0 THEN 0 ELSE 1 + BitLen(n \div 2)

\* s * (M + d) * 2^e rounded to MantBits bits, nearest, ties to even;
\* d is 0 when sticky is FALSE and some value in (0,1) when it is TRUE
Round(sg, M, e, sticky) ==
    IF M = 0 THEN Zero
    ELSE LET bits == BitLen(M)
         IN IF bits <= MantBits
            THEN [k |-> "fin", s |-> sg, m |-> M * 2^(MantBits - bits),
                  e |-> e - (MantBits - bits)]
            ELSE LET sh   == bits - MantBits
                     q    == M \div 2^sh
                     rem  == M % 2^sh
                     half == 2^(sh - 1)
                     up   == \/ rem > half
                             \/ rem = half /\ sticky
                             \/ rem = half /\ ~sticky /\ q % 2 = 1
                     q1   == IF up THEN q + 1 ELSE q
                 IN IF q1 = 2^MantBits
                    THEN [k |-> "fin", s |-> sg, m |-> 2^(MantBits - 1),
                          e |-> e + sh + 1]
                    ELSE [k |-> "fin", s |-> sg, m |-> q1, e |-> e + sh]

\* the float nearest to the integer n (Python int -> float)
F(n) == Round(Sgn(n), Abs(n), 0, FALSE)

\* the float nearest to n / d, for integers n and d > 0
Frac(n, d) ==
    LET N == Abs(n) * 2^(MantBits + 2)
    IN Round(Sgn(n), N \div d, -(MantBits + 2), N % d # 0)

Neg(x) == IF x.k = "nan" \/ IsZero(x) THEN x ELSE [x EXCEPT !.s = -x.s]

\* x * y
Mul(x, y) ==
    IF IsNaN(x) \/ IsNaN(y) THEN NaN
    ELSE IF IsInf(x) \/ IsInf(y)
         THEN IF IsZero(x) \/ IsZero(y) THEN NaN ELSE Inf(x.s * y.s)
         ELSE Round(x.s * y.s, x.m * y.m, x.e + y.e, FALSE)

\* x / y
Div(x, y) ==
    IF IsNaN(x) \/ IsNaN(y) THEN NaN
    ELSE IF IsInf(x) THEN (IF IsInf(y) THEN NaN ELSE Inf(x.s * y.s))
    ELSE IF IsInf(y) THEN Zero
    ELSE IF IsZero(y) THEN (IF IsZero(x) THEN NaN ELSE Inf(x.s))
    ELSE IF IsZero(x) THEN Zero
    ELSE LET N == x.m * 2^(MantBits + 2)
         IN Round(x.s * y.s, N \div y.m, x.e - y.e - (MantBits + 2),
                  N % y.m # 0)

\* x + y
Add(x, y) ==
    IF IsNaN(x) \/ IsNaN(y) THEN NaN
    ELSE IF IsInf(x) THEN (IF IsInf(y) /\ y.s # x.s THEN NaN ELSE x)
    ELSE IF IsInf(y) THEN y
    ELSE IF IsZero(x) THEN y
    ELSE IF IsZero(y) THEN x
    ELSE LET hi == IF x.e >= y.e THEN x ELSE y
             lo == IF x.e >= y.e THEN y ELSE x
             d  == hi.e - lo.e
         IN IF d > MantBits + 2
            THEN \* lo is below a quarter of the last place of hi
                 LET M == hi.m * 4 + (IF lo.s = hi.s THEN 0 ELSE -1)
                 IN Round(hi.s, M, hi.e - 2, TRUE)
            ELSE LET sum == hi.s * hi.m * 2^d + lo.s * lo.m
                 IN Round(Sgn(sum), Abs(sum), lo.e, FALSE)

\* x - y
Sub(x, y) == Add(x, Neg(y))

RECURSIVE ISqrtBits(_, _, _)
\* the largest r with r * r <= n, built bit by bit from bit b down
ISqrtBits(n, r, b) ==
    IF b < 0 THEN r
    ELSE LET t == r + 2^b
         IN ISqrtBits(n, IF t * t <= n THEN t ELSE r, b - 1)

\* np.sqrt
sqrt(x) ==
    IF IsNaN(x) THEN NaN
    ELSE IF IsZero(x) THEN Zero
    ELSE IF x.s < 0 THEN NaN
    ELSE IF IsInf(x) THEN x
    ELSE LET sh == IF (x.e - MantBits) % 2 = 0 THEN MantBits + 2
                   ELSE MantBits + 3
             N  == x.m * 2^sh
             r  == ISqrtBits(N, 0, MantBits + 1)
         IN Round(1, r, (x.e - sh) \div 2, r * r # N)

RECURSIVE Log2Frac(_, _, _)
\* the first n fraction bits of log2(y / 2^LogBits), 1 <= y / 2^LogBits < 2
Log2Frac(y, n, acc) ==
    IF n = 0 THEN acc
    ELSE LET y2 == (y * y) \div 2^LogBits
         IN IF y2 >= 2^(LogBits + 1)
            THEN Log2Frac(y2 \div 2, n - 1, 2 * acc + 1)
            ELSE Log2Frac(y2, n - 1, 2 * acc)

\* ln 2
Ln2 == Frac(6931, 10000)

\* np.log
log(x) ==
    IF IsNaN(x) THEN NaN
    ELSE IF IsZero(x) THEN Inf(-1)
    ELSE IF x.s < 0 THEN NaN
    ELSE IF IsInf(x) THEN x
    ELSE LET y    == x.m * 2^(LogBits - (MantBits - 1))
             fr   == Log2Frac(y, LogBits, 0)
             ip   == x.e + MantBits - 1
             l2   == ip * 2^LogBits + fr
         IN Mul(Round(Sgn(l2), Abs(l2), -LogBits, FALSE), Ln2)

RECURSIVE PowNat(_, _)
\* x ** n for n >= 0, by n rounded multiplications; x ** 0 is 1 for every x
PowNat(x, n) == IF n = 0 THEN F(1) ELSE Mul(PowNat(x, n - 1), x)

\* x ** n for an integer n
Pow(x, n) == IF n >= 0 THEN PowNat(x, n) ELSE Div(F(1), PowNat(x, -n))

\* x ** 1.5, as x times its square root
Pow15(x) == Mul(x, sqrt(x))

----------------------------------------------------------------------------
(* particles *)

Proton == [name |-> "p+", ion |-> TRUE, charge_number |-> 1, mass_number |-> 1]

AlphaParticle == [name |-> "He-4++", ion |-> TRUE, charge_number |-> 2, mass_number |-> 4]

Deuteron == [name |-> "D+", ion |-> TRUE, charge_number |-> 1, mass_number |-> 2]

HMinus == [name |-> "H-1 1-", ion |-> TRUE, charge_number |-> -1, mass_number |-> 1]

Hydrogen == [name |-> "H-1 0+", ion |-> FALSE, charge_number |-> 0, mass_number |-> 1]

----------------------------------------------------------------------------
(* df_eq *)

\* a local name that has not been assigned yet
Unbound == [k |-> "unbound", s |-> 1, m |-> 0, e |-> 0]

\* A = 2.6 * 10**7
A == Mul(Frac(26, 10), F(10000000))

\* B = 1 / (cm K)**1.5
B == Div(F(1), Pow15(F(1)))

\* the term n_2 * z_2**2 / n_1 * z_1**2 of c, evaluated left to right
DensityChargeTerm(n_2, z_2, n_1, z_1) ==
    Mul(Div(Mul(n_2, F(z_2 * z_2)), n_1), F(z_1 * z_1))

\* the Coulomb logarithm for mixed ion collisions
lambda_ba(theta, T_1, n_1, n_2, z_1, z_2, mu_1, mu_2) ==
    LET a == sqrt(Div(Pow(T_1, 3), n_1))
        b == Div(Add(theta, Frac(mu_2, mu_1)), F(z_1 * z_2 * (mu_1 + mu_2)))
        c == sqrt(Add(DensityChargeTerm(n_2, z_2, n_1, z_1), theta))
    IN Add(F(9), log(Mul(Mul(Mul(B, a), b), c)))

\* d_r = (r_0 - r_n) / n_step
StepSize(r_0, r_n, n_step) == Div(Sub(r_0, r_n), F(n_step))

\* r = r_n + ((i + 1) * d_r)
Radius(r_n, i, d_r) == Add(r_n, Mul(F(i + 1), d_r))

\* the scaling law without the division by r_n
ScaleUnnormalised(q_0, r, r_n, exponent) == Mul(q_0, Pow(r, exponent))

\* q_0 * (r / r_n) ** exponent
Scale(q_0, r, r_n, exponent) == Mul(q_0, Pow(Div(r, r_n), exponent))

\* the ratio the iteration starts from: theta = T_2 / T_1
StartTheta(d, T_1) == Div(d.T_2, T_1)

\* eta = n_2 / n_1
eta(n_2, n_1) == Div(n_2, n_1)

\* alpha = n_1 / (v_1 * (T_1**1.5))
alpha(n_1, v_1, T_1) == Div(n_1, Mul(v_1, Pow15(T_1)))

\* beta = (np.sqrt(mu_1 * mu_2) * z_1 * z_2 * (1 - theta) * (1 + eta * theta))
\*        / (np.sqrt((mu_2 / mu_1) + theta) ** 3)
beta(d, theta, n_1) ==
    Div(Mul(Mul(Mul(Mul(sqrt(F(d.mu_1 * d.mu_2)), F(d.z_1)), F(d.z_2)),
                Sub(F(1), theta)),
            Add(F(1), Mul(eta(d.n_2, n_1), theta))),
        Pow(sqrt(Add(Frac(d.mu_2, d.mu_1), theta)), 3))

\* l_ba = lambda_ba(theta, T_1, n_1, n_2, z_1, z_2, mu_1, mu_2)
l_ba(d, theta, n_1, T_1) ==
    lambda_ba(theta, T_1, n_1, d.n_2, d.z_1, d.z_2, d.mu_1, d.mu_2)

\* theta + d_theta, with d_theta = d_r * alpha * l_ba * A * beta
Advance(d, theta, n_1, v_1, T_1) ==
    LET d_theta == Mul(Mul(Mul(Mul(d.d_r, alpha(n_1, v_1, T_1)),
                               l_ba(d, theta, n_1, T_1)),
                           A),
                       beta(d, theta, n_1))
    IN Add(theta, d_theta)

\* the frame of df_eq before its loop: parameters, ion data, step size
Enter(r_0, r_n, n_1_0, n_2, v_1_0, T_1_0, T_2, ions, n_step, density, velocity, temperature) ==
    [r_0 |-> r_0, r_n |-> r_n, n_1_0 |-> n_1_0, n_2 |-> n_2,
     v_1_0 |-> v_1_0, T_1_0 |-> T_1_0, T_2 |-> T_2, n_step |-> n_step,
     density |-> density, velocity |-> velocity, temperature |-> temperature,
     z_1 |-> ions[1].charge_number, mu_1 |-> ions[1].mass_number,
     z_2 |-> ions[2].charge_number, mu_2 |-> ions[2].mass_number,
     d_r |-> StepSize(r_0, r_n, n_step),
     i |-> 0, r |-> Unbound, n_1 |-> Unbound, v_1 |-> Unbound,
     T_1 |-> Unbound, lambda_theta |-> Unbound, theta |-> Unbound]

\* a loop body that rescales the secondary ion's density as well
IterateScalingSecondary(d) ==
    LET r     == Radius(d.r_n, d.i, d.d_r)
        n_1   == Scale(d.n_1_0, r, d.r_n, d.density)
        v_1   == Scale(d.v_1_0, r, d.r_n, d.velocity)
        T_1   == Scale(d.T_1_0, r, d.r_n, d.temperature)
        n_2   == Scale(d.n_2, r, d.r_n, d.density)
        theta == StartTheta(d, T_1)
    IN [d EXCEPT !.i = d.i + 1, !.r = r, !.n_1 = n_1, !.v_1 = v_1,
                 !.T_1 = T_1, !.n_2 = n_2, !.lambda_theta = theta,
                 !.theta = Advance([d EXCEPT !.n_2 = n_2], theta, n_1, v_1, T_1)]

\* one pass of the loop body; d.i is the loop index i of this pass
Iterate(d) ==
    LET r     == Radius(d.r_n, d.i, d.d_r)
        n_1   == Scale(d.n_1_0, r, d.r_n, d.density)
        v_1   == Scale(d.v_1_0, r, d.r_n, d.velocity)
        T_1   == Scale(d.T_1_0, r, d.r_n, d.temperature)
        theta == StartTheta(d, T_1)
    IN [d EXCEPT !.i = d.i + 1, !.r = r, !.n_1 = n_1, !.v_1 = v_1,
                 !.T_1 = T_1, !.lambda_theta = theta,
                 !.theta = Advance(d, theta, n_1, v_1, T_1)]

\* the frame before any invocation
NoFrame == Enter(Zero, Zero, Zero, Zero, Zero, Zero, Zero,
                 <<Proton, Proton>>, 1, 0, 0, 0)

----------------------------------------------------------------------------
(* the calls tried *)

\* a Quantity holding one number, and one holding a one-dimensional array
Scalar(x) == [shape |-> "scalar", v |-> <<x>>]

Array(xs) == [shape |-> "array", v |-> xs]

\* the rows of the docstring example: r_0, r_n, n_1, n_2, v_1, T_1, T_2
DocBatch ==
    << <<Frac(1, 10), F(1), F(1200), F(12), F(450), F(150000), F(2500000)>>,
       <<Frac(1, 10), F(1), F(1500), F(18), F(350), F(210000), F(1800000)>>,
       <<Frac(1, 10), F(1), F(1400), F(8), F(400), F(170000), F(2800000)>> >>

\* column c of the example as a Quantity: a scalar for len = -1, else an
\* array of len elements
Column(c, len) ==
    IF len = -1 THEN Scalar(DocBatch[1][c])
    ELSE Array([j \in 1..len |-> DocBatch[((j - 1) % 3) + 1][c]])

\* scenarios whose quantities are non-negative and whose radii are positive
Radii == {Frac(1, 10), F(1)}

Scenarios ==
    {<<r0, rn, n1, n2, v1, T1, T2>> :
        r0 \in Radii, rn \in Radii, n1 \in {Zero, F(1200)}, n2 \in {Zero, F(12)},
        v1 \in {Zero, F(450)}, T1 \in {Zero, F(150000)}, T2 \in {Zero, F(2500000)}}

IonPairs == {<<Proton, AlphaParticle>>, <<AlphaParticle, Proton>>, <<Proton, HMinus>>}

IonLists ==
    IonPairs \cup {<<>>, <<Proton>>, <<Proton, AlphaParticle, Deuteron>>,
                   <<Proton, Hydrogen>>, <<Hydrogen, AlphaParticle>>,
                   <<Hydrogen>>}

\* n_step: an int or a value of another type (2.5, "2", None)
Integral(n) == [int |-> TRUE, v |-> n]

NotIntegral == [int |-> FALSE, v |-> 2]

\* a scaling argument: a real number or a value of another type
RealNum(n) == [real |-> TRUE, v |-> n]

NotReal == [real |-> FALSE, v |-> 0]

\* <<density_scale, velocity_scale, temperature_scale>>; the exponents are
\* integers here (the defaults -1.8, -0.2, -0.74 are not), so that ** is a
\* product of rounded multiplications
ScaleSets == {<<RealNum(0), RealNum(0), RealNum(0)>>, <<RealNum(-2), RealNum(0), RealNum(-1)>>,
              <<RealNum(1), RealNum(-1), RealNum(1)>>}

Call(q, ions, n_step, sc, verbose, info) ==
    [r_0 |-> q[1], r_n |-> q[2], n_1 |-> q[3], n_2 |-> q[4], v_1 |-> q[5],
     T_1 |-> q[6], T_2 |-> q[7], ions |-> ions, n_step |-> n_step,
     density_scale |-> sc[1], velocity_scale |-> sc[2],
     temperature_scale |-> sc[3], verbose |-> verbose,
     \* not an argument: whether the root logger handles level INFO
     info_enabled |-> info]

\* one scenario per call, over all scenarios, ions, step counts and scalings
NumericCalls ==
    {Call([c \in 1..7 |-> Array(<<sc[c]>>)], ions, Integral(n), ex, FALSE, FALSE) :
        sc \in Scenarios, ions \in IonPairs, n \in 1..MaxStep, ex \in ScaleSets}

\* the example with every mix of scalars and arrays of every length
ShapeCalls ==
    {Call([c \in 1..7 |-> Column(c, len[c])], <<Proton, AlphaParticle>>, Integral(2),
          <<RealNum(-2), RealNum(0), RealNum(-1)>>, vb, info) :
        len \in [1..7 -> {-1} \cup 1..MaxBatch] \cup {[c \in 1..7 |-> 0]},
        vb \in BOOLEAN, info \in BOOLEAN}

\* the example, as scalars or arrays, with every ion list, step count and
\* scaling type
ValidationCalls ==
    {Call([c \in 1..7 |-> Column(c, len)], ions, n, ex, FALSE, FALSE) :
        len \in {-1, 1, MaxBatch},
        ions \in IonLists,
        n \in {NotIntegral, Integral(-1), Integral(0), Integral(1), Integral(2)},
        ex \in {<<RealNum(-2), RealNum(0), RealNum(-1)>>,
                <<NotReal, RealNum(0), RealNum(-1)>>,
                <<RealNum(-2), NotReal, RealNum(-1)>>,
                <<RealNum(-2), RealNum(0), NotReal>>}}

Calls == NumericCalls \cup ShapeCalls \cup ValidationCalls

----------------------------------------------------------------------------
(* thermalization_ratio *)

NoResult == [kind |-> "none", exc |-> "", val |-> <<>>]

Returned(kind, val) == [kind |-> kind, exc |-> "", val |-> val]

Raised(exc) == [kind |-> "raised", exc |-> exc, val |-> <<>>]

Init ==
    /\ args \in Calls
    /\ pc = "validate_ions"
    /\ df = NoFrame
    /\ res = <<>>
    /\ bi = 0
    /\ caller = "none"
    /\ result = NoResult
    /\ entered = 0

Raise(exc) ==
    /\ pc' = "raised"
    /\ result' = Raised(exc)

\* a check that only asks for at least two particles
IonsCheckAtLeastTwo(ions) ==
    IF Len(ions) < 2 THEN "ValueError: number of ions" ELSE "ok"

\* len(ions) == 2 and all(ions.is_category("ion"))
IonsCheck(ions) ==
    IF Len(ions) # 2 THEN "ValueError: number of ions"
    ELSE IF \E j \in 1..Len(ions) : ~ions[j].ion
         THEN "ValueError: not ions"
         ELSE "ok"

\* isinstance(n_step, numbers.Integral)
NStepCheck(n_step) == IF ~n_step.int THEN "TypeError: n_step" ELSE "ok"

\* isinstance(arg, numbers.Real) for the three scaling arguments
ScalingCheck(density_scale, velocity_scale, temperature_scale) ==
    IF \E arg \in {density_scale, velocity_scale, temperature_scale} : ~arg.real
    THEN "TypeError: scaling"
    ELSE "ok"

ValidateIons ==
    /\ pc = "validate_ions"
    /\ IF IonsCheck(args.ions) = "ok"
       THEN pc' = "validate_n_step" /\ UNCHANGED result
       ELSE Raise(IonsCheck(args.ions))
    /\ UNCHANGED <<args, df, res, bi, caller, entered>>

ValidateNStep ==
    /\ pc = "validate_n_step"
    /\ IF NStepCheck(args.n_step) = "ok"
       THEN pc' = "validate_scaling" /\ UNCHANGED result
       ELSE Raise(NStepCheck(args.n_step))
    /\ UNCHANGED <<args, df, res, bi, caller, entered>>

ValidateScaling ==
    /\ pc = "validate_scaling"
    /\ LET chk == ScalingCheck(args.density_scale, args.velocity_scale,
                               args.temperature_scale)
       IN IF chk = "ok"
          THEN pc' = "dispatch" /\ UNCHANGED result
          ELSE Raise(chk)
    /\ UNCHANGED <<args, df, res, bi, caller, entered>>

\* variables = [r_0, r_n, n_1, n_2, v_1, T_1, T_2]
Variables(a) == <<a.r_0, a.r_n, a.n_1, a.n_2, a.v_1, a.T_1, a.T_2>>

\* hasattr(var, "__len__"): every value here is a Quantity, a subclass of
\* numpy.ndarray, whose class defines __len__ whatever the shape
HasLen(var) == var.shape \in {"scalar", "array"}

RECURSIVE LenCompare(_, _)
\* all(len(variables[0]) == len(z) for z in variables[1:]), from element j
\* on: len() of a scalar Quantity raises TypeError, and all() stops at the
\* first unequal length
LenCompare(variables, j) ==
    IF j > Len(variables) THEN "equal"
    ELSE IF variables[1].shape = "scalar" \/ variables[j].shape = "scalar"
         THEN "TypeError: len() of a scalar Quantity"
         ELSE IF Len(variables[1].v) # Len(variables[j].v)
              THEN "unequal"
              ELSE LenCompare(variables, j + 1)

\* df_eq(...) called with the arguments q, a sequence of seven numbers
Invoke(q, site) ==
    /\ df' = Enter(q[1], q[2], q[3], q[4], q[5], q[6], q[7], args.ions,
                   args.n_step.v, args.density_scale.v, args.velocity_scale.v,
                   args.temperature_scale.v)
    /\ caller' = site
    /\ entered' = entered + 1
    /\ pc' = "loop"

Dispatch ==
    /\ pc = "dispatch"
    /\ LET variables == Variables(args)
           var == \A j \in 1..7 : HasLen(variables[j])
       IN IF ~var
          THEN /\ Invoke([c \in 1..7 |-> variables[c].v[1]], "single")
               /\ UNCHANGED <<res, bi, result>>
          ELSE IF LenCompare(variables, 2) = "equal"
          THEN /\ res' = <<>>
               /\ bi' = 0
               /\ pc' = "batch"
               /\ UNCHANGED <<df, caller, result, entered>>
          ELSE IF LenCompare(variables, 2) = "unequal"
          THEN /\ Raise("ValueError: unequal lengths")
               /\ UNCHANGED <<df, res, bi, caller, entered>>
          ELSE /\ Raise(LenCompare(variables, 2))
               /\ UNCHANGED <<df, res, bi, caller, entered>>
    /\ UNCHANGED args

\* for i in range(len(variables[0])): the call of df_eq, or return res
BatchLoop ==
    /\ pc = "batch"
    /\ IF bi < Len(args.r_0.v)
       THEN /\ Invoke([c \in 1..7 |-> Variables(args)[c].v[bi + 1]], "batch")
            /\ UNCHANGED <<res, bi, result>>
       ELSE /\ pc' = "done"
            /\ result' = Returned("list", res)
            /\ UNCHANGED <<df, res, bi, caller, entered>>
    /\ UNCHANGED args

\* for i in range(n_step): one pass
LoopIter ==
    /\ pc = "loop"
    /\ df.i < df.n_step
    /\ df' = Iterate(df)
    /\ UNCHANGED <<args, pc, res, bi, caller, result, entered>>

\* logging.info("\r", "...", end=""): Logger._log takes no keyword end, and
\* is reached only when the level is enabled
LogProgress(verbose, info_enabled) ==
    IF verbose /\ info_enabled THEN "TypeError: logging" ELSE "ok"

\* return theta.value, and what the call site does with it
Return ==
    /\ pc = "loop"
    /\ ~(df.i < df.n_step)
    /\ IF df.theta = Unbound
       THEN /\ Raise("UnboundLocalError: theta")
            /\ UNCHANGED <<res, bi>>
       ELSE IF caller = "single"
       THEN /\ pc' = "done"
            /\ result' = Returned("value", <<df.theta>>)
            /\ UNCHANGED <<res, bi>>
       ELSE /\ res' = Append(res, df.theta)
            /\ IF LogProgress(args.verbose, args.info_enabled) = "ok"
               THEN /\ bi' = bi + 1
                    /\ pc' = "batch"
                    /\ UNCHANGED result
               ELSE /\ Raise(LogProgress(args.verbose, args.info_enabled))
                    /\ UNCHANGED bi
    /\ UNCHANGED <<args, df, caller, entered>>

Next ==
    \/ ValidateIons
    \/ ValidateNStep
    \/ ValidateScaling
    \/ Dispatch
    \/ BatchLoop
    \/ LoopIter
    \/ Return

Spec == Init /\ [][Next]_vars

----------------------------------------------------------------------------
(* properties *)

Terminal == pc \in {"done", "raised"}

ValidationErrors ==
    {"ValueError: number of ions", "ValueError: not ions", "TypeError: n_step",
     "TypeError: scaling"}

\* the call got past the validation of ions, n_step and the scalings
PastDispatch ==
    /\ pc \notin {"validate_ions", "validate_n_step", "validate_scaling",
                  "dispatch"}
    /\ result.exc \notin ValidationErrors

\* the loop of the current invocation has made all its passes
LoopDone == pc = "loop" /\ ~(df.i < df.n_step)

IsPos(x) == x.k = "fin" /\ x.m > 0 /\ x.s = 1

\* the primary ion's quantities at the radius of pass i (i = 0, 1, ...)
ScaledAt(d, q_0, exponent, i) ==
    Mul(q_0, Pow(Div(Add(d.r_n, Mul(F(i + 1), d.d_r)), d.r_n), exponent))

RECURSIVE EulerTheta(_, _)
\* forward Euler: theta_0 = T_2 / T_1 at r_n, and theta_{i+1} is theta_i
\* plus d_r times the derivative at theta_i and the radius of pass i
EulerTheta(d, n) ==
    IF n = 0 THEN Div(d.T_2, d.T_1_0)
    ELSE Advance(d, EulerTheta(d, n - 1),
                 ScaledAt(d, d.n_1_0, d.density, n - 1),
                 ScaledAt(d, d.v_1_0, d.velocity, n - 1),
                 ScaledAt(d, d.T_1_0, d.temperature, n - 1))

\* C1: for n_step >= 1 the value df_eq returns is the forward-Euler
\* recurrence applied n_step times, each step starting from the ratio the
\* previous step produced
C1_EulerRecurrence ==
    (LoopDone /\ df.n_step >= 1) => df.theta = EulerTheta(df, df.n_step)

\* C2: the ratio the first pass evaluates the Coulomb logarithm and the
\* derivative with is T_2 / T_1_at_r_n, the ratio at the inner boundary
C2_InitialTheta ==
    (pc = "loop" /\ df.i = 1) => df.lambda_theta = Div(df.T_2, df.T_1_0)

FiniteStep(d) ==
    LET theta == Div(d.T_2, d.T_1_0)
    IN /\ IsFin(alpha(d.n_1_0, d.v_1_0, d.T_1_0))
       /\ IsFin(l_ba(d, theta, d.n_1_0, d.T_1_0))
       /\ IsFin(beta(d, theta, d.n_1_0))

SameLengthArrays(a) ==
    \A j \in 1..7 : /\ Variables(a)[j].shape = "array"
                    /\ Len(Variables(a)[j].v) = Len(a.r_0.v)

RECURSIVE RunLoop(_)
\* the frame of df_eq when its loop has ended
RunLoop(d) == IF d.i < d.n_step THEN RunLoop(Iterate(d)) ELSE d

\* what the single-scenario form gives for element j of the arrays
SingleScenario(a, j) ==
    RunLoop(Enter(a.r_0.v[j], a.r_n.v[j], a.n_1.v[j], a.n_2.v[j], a.v_1.v[j],
                  a.T_1.v[j], a.T_2.v[j], a.ions, a.n_step.v,
                  a.density_scale.v, a.velocity_scale.v,
                  a.temperature_scale.v)).theta

\* C4: with seven arrays of length k the call returns a list of k values,
\* the j-th being the single-scenario result for the j-th elements, after
\* one invocation of df_eq per element
C4_BatchEquivalence ==
    (PastDispatch /\ Terminal /\ SameLengthArrays(args))
        => /\ result.kind = "list"
           /\ Len(result.val) = Len(args.r_0.v)
           /\ entered = Len(args.r_0.v)
           /\ \A j \in 1..Len(result.val) :
                 result.val[j] = SingleScenario(args, j)

\* some input is an array, and the inputs are not seven arrays of one length
LengthMismatch(a) ==
    /\ \E j \in 1..7 : Variables(a)[j].shape = "array"
    /\ ~SameLengthArrays(a)

\* C5: when the array-like inputs are not all of one length, scalars among
\* arrays included, the call raises the unequal-lengths error, df_eq is
\* never invoked and no list is returned
C5_LengthMismatch ==
    (PastDispatch /\ LengthMismatch(args))
        => /\ result = Raised("ValueError: unequal lengths")
           /\ entered = 0

\* 'ions' is not two particles, or holds a particle that is not an ion
BadIons(ions) == Len(ions) # 2 \/ \E j \in 1..Len(ions) : ~ions[j].ion

\* C6: a call whose ions are not exactly two ions raises a ValueError and
\* df_eq is never entered, whatever the other arguments
C6_IonRejection ==
    BadIons(args.ions)
        => /\ entered = 0
           /\ pc \in {"validate_ions", "raised"}
           /\ pc = "raised" =>
                /\ result.kind = "raised"
                /\ result.exc \in {"ValueError: number of ions",
                                   "ValueError: not ions"}

C6_Witness ==
    /\ pc = "raised" /\ BadIons(args.ions) /\ args.n_step = Integral(2)
    /\ Len(args.ions) >= 2 /\ args.r_0.shape = "array"

\* C7: df_eq is entered only with a positive integer n_step, so that theta
\* is bound when df_eq returns
C7_PositiveStepCount ==
    /\ entered > 0 => (args.n_step.int /\ args.n_step.v >= 1)
    /\ result.exc # "UnboundLocalError: theta"

\* C8: the loop ends after exactly n_step passes, pass i is made at
\* r = r_n + (i+1) * d_r, and the last pass is made at r_0
C8_MarchingSchedule ==
    /\ LoopDone => df.i = df.n_step
    /\ (pc = "loop" /\ df.i >= 1)
          => df.r = Add(df.r_n, Mul(F(df.i), df.d_r))
    /\ (LoopDone /\ df.i >= 1) => df.r = df.r_0

\* the arguments of the current invocation of df_eq
Element(c) == Variables(args)[c].v[IF caller = "batch" THEN bi + 1 ELSE 1]

\* C9: in every pass of every invocation the boundary radii, the reference
\* values at r_n, the secondary ion's density and temperature and the ion
\* data are the values df_eq was entered with, and the primary ion's
\* density, velocity and temperature are the reference values times
\* (r / r_n) ** exponent
C9_Frame ==
    pc = "loop"
        => /\ df.r_0 = Element(1) /\ df.r_n = Element(2)
           /\ df.n_1_0 = Element(3) /\ df.n_2 = Element(4)
           /\ df.v_1_0 = Element(5) /\ df.T_1_0 = Element(6)
           /\ df.T_2 = Element(7)
           /\ df.z_1 = args.ions[1].charge_number
           /\ df.mu_1 = args.ions[1].mass_number
           /\ df.z_2 = args.ions[2].charge_number
           /\ df.mu_2 = args.ions[2].mass_number
           /\ df.i >= 1 =>
                /\ df.n_1 = Mul(df.n_1_0, Pow(Div(df.r, df.r_n), df.density))
                /\ df.v_1 = Mul(df.v_1_0, Pow(Div(df.r, df.r_n), df.velocity))
                /\ df.T_1 = Mul(df.T_1_0, Pow(Div(df.r, df.r_n), df.temperature))

C9_Witness ==
    /\ LoopDone /\ df.n_step >= 2 /\ df.i = df.n_step
    /\ df.density # 0 /\ df.r_0 # df.r_n /\ IsPos(df.n_2) /\ IsPos(df.n_1_0)
    /\ df.n_1 # df.n_1_0

\* C10: for positive densities and non-zero charges, the term added to
\* theta under the second square root is (n_2 * Z_2^2) / (n_1 * Z_1^2)
C10_DocumentedTerm ==
    (pc = "loop" /\ df.i >= 1 /\ IsPos(df.n_1) /\ IsPos(df.n_2)
       /\ df.z_1 # 0 /\ df.z_2 # 0)
        => DensityChargeTerm(df.n_2, df.z_2, df.n_1, df.z_1)
             = Div(Mul(df.n_2, F(df.z_2 * df.z_2)),
                   Mul(df.n_1, F(df.z_1 * df.z_1)))

====
